---- MODULE Spec2Model ----
(***************************************************************************)
(* Communication fusion passes of spmd/compiler/fusion.py.                 *)
(*                                                                         *)
(* The fx graph is a sequence of nodes (program order) with an argument    *)
(* map.  A node is a triple <<name, k, j>>: name is the prefix of the fx   *)
(* node name the code tests with startswith, k the fusion element (or ring *)
(* buffer) the node belongs to, j distinguishes nodes of one name within   *)
(* one element.  Positions and slots are 1-based.                          *)
(***************************************************************************)
EXTENDS Integers, Sequences, FiniteSets, TLC

VARIABLES
    input,            \* arguments of the call: the graph module and the options
    pc,               \* position of the pass driver
    nodes,            \* gm.graph.nodes, in program order
    args,             \* node -> its node-valued arguments
    attr,             \* node -> its integer arguments / tensor_meta shape
    gi,               \* the GraphInfo instance
    loc,              \* the driver's local variables
    fused,            \* the groups handed to the fuse step so far, as index lists
    users             \* node -> the entries the pass writes into node.users itself

vars == <<input, pc, nodes, args, attr, gi, loc, fused, users>>

-----------------------------------------------------------------------------
(* Bounds of the model *)

MaxElems == 3
MaxFusionLength == 3
MaxRingBuffers == 2

(* Program constants *)

FP32_BYTES == 4
MB == 1048576

-----------------------------------------------------------------------------
(* Sequence helpers *)

RECURSIVE SumSeq(_)
SumSeq(s) == IF s = <<>> THEN 0 ELSE Head(s) + SumSeq(Tail(s))

RECURSIVE Concat(_)
Concat(ss) == IF ss = <<>> THEN <<>> ELSE Head(ss) \o Concat(Tail(ss))

Range(s) == {s[i] : i \in DOMAIN s}

Max(a, b) == IF a >= b THEN a ELSE b

Min(a, b) == IF a <= b THEN a ELSE b

\* list.index(x): the first position holding x
IndexOf(s, x) == CHOOSE i \in DOMAIN s : s[i] = x /\ \A j \in 1..(i - 1) : s[j] # x

\* Python slice s[a:b] with 0 <= a (0-based bounds), clamped at the end
PySlice(s, a, b) == SubSeq(s, a + 1, Min(b, Len(s)))

Without(s, x) == SelectSeq(s, LAMBDA y : y # x)

InsertAt(s, i, x) == SubSeq(s, 1, i) \o <<x>> \o SubSeq(s, i + 1, Len(s))

-----------------------------------------------------------------------------
(* Nodes *)

None == <<"None", 0, 0>>
Placeholder == <<"placeholder", 0, 0>>
Loss == <<"loss", 0, 0>>
Grad(k) == <<"grad", k, 0>>
Clone(k) == <<"clone", k, 0>>
TensorConstant(k, j) == <<"_tensor_constant", k, j>>
AllReduce(k) == <<"allreduce_", k, 0>>
GetItem(k) == <<"getitem", k, 0>>
WaitComm(k) == <<"wait_comm", k, 0>>
Output(v) == <<"output", v, 0>>

\* node.name.startswith(prefix), for the prefixes the code tests
StartsWith(node, prefix) ==
    IF prefix = "wait" THEN node[1] = "wait_comm" ELSE node[1] = prefix

\* node.op
Op(node) ==
    CASE node[1] = "placeholder" -> "placeholder"
      [] node[1] = "output" -> "output"
      [] OTHER -> "call_function"

RECURSIVE Numel(_)
Numel(shape) == IF shape = <<>> THEN 1 ELSE Head(shape) * Numel(Tail(shape))

-----------------------------------------------------------------------------
(* fx node list primitives *)

Pos(ns, x) == IndexOf(ns, x)

\* node.next / node.prev; the list's sentinel is None
NextOf(ns, x) == IF Pos(ns, x) = Len(ns) THEN None ELSE ns[Pos(ns, x) + 1]

PrevOf(ns, x) == IF Pos(ns, x) = 1 THEN None ELSE ns[Pos(ns, x) - 1]

\* anchor.prepend(x): x is unlinked and linked in again directly before anchor;
\* prepending a node to itself has no effect.  A None anchor is the sentinel:
\* x goes to the end of the list.
Prepend(ns, anchor, x) ==
    IF anchor = x THEN ns
    ELSE LET rest == Without(ns, x)
         IN  IF anchor = None THEN Append(rest, x)
             ELSE InsertAt(rest, Pos(rest, anchor) - 1, x)

\* anchor.append(x) is anchor.next.prepend(x)
AppendAfter(ns, anchor, x) == Prepend(ns, NextOf(ns, anchor), x)

\* graph.create_node under inserting_before(anchor); without an insert point
\* (anchor = None) the node goes to the end of the list
CreateBefore(ns, anchor, x) ==
    IF anchor = None THEN Append(ns, x) ELSE InsertAt(ns, Pos(ns, anchor) - 1, x)

RECURSIVE CreateAllBefore(_, _, _)
CreateAllBefore(ns, anchor, xs) ==
    IF xs = <<>> THEN ns
    ELSE CreateAllBefore(CreateBefore(ns, anchor, Head(xs)), anchor, Tail(xs))

\* graph.create_node under inserting_after(anchor)
CreateAfter(ns, anchor, x) == InsertAt(ns, Pos(ns, anchor), x)

-----------------------------------------------------------------------------
(* Input graphs *)

Shapes == {<<1>>, <<1, 3>>, <<512, 512>>}

\* one DTensor-expanded allreduce: clone, two constants, the collective, the
\* result accessor and the wait
CommBlock(k) ==
    <<Clone(k), TensorConstant(k, 1), TensorConstant(k, 2), AllReduce(k),
      GetItem(k), WaitComm(k)>>

\* Orders of the gradient nodes and the comm blocks: the blocks in scan order,
\* every gradient before its own block
RECURSIVE Layouts(_)
Layouts(n) ==
    IF n = 0 THEN {<<>>}
    ELSE {Append(InsertAt(l, p, <<"g", n>>), <<"B", n>>) :
            l \in Layouts(n - 1), p \in 0..(2 * (n - 1))}

CanonicalLayout(n) == Concat([k \in 1..n |-> <<<<"g", k>>, <<"B", k>>>>])

LayoutNodes(layout) ==
    Concat([i \in DOMAIN layout |->
              IF layout[i][1] = "g" THEN <<Grad(layout[i][2])>>
              ELSE CommBlock(layout[i][2])])

\* the arguments of the nodes of a traced training step with n elements
InputArgs(n, out) ==
    [x \in {Placeholder, Loss, Output(0)} |->
        CASE x = Placeholder -> <<>>
          [] x = Loss -> <<Placeholder>>
          [] OTHER -> out]
    @@ [x \in {Grad(k) : k \in 1..n} |-> <<Placeholder>>]
    @@ [x \in {Clone(k) : k \in 1..n} |-> <<Grad(x[2])>>]
    @@ [x \in {TensorConstant(k, j) : k \in 1..n, j \in 1..2} |-> <<>>]
    @@ [x \in {AllReduce(k) : k \in 1..n} |->
          <<Clone(x[2]), TensorConstant(x[2], 1), TensorConstant(x[2], 2)>>]
    @@ [x \in {GetItem(k) : k \in 1..n} |-> <<AllReduce(x[2])>>]
    @@ [x \in {WaitComm(k) : k \in 1..n} |-> <<GetItem(x[2])>>]

\* tensor_meta shapes of the nodes of element k: its gradient's shape
InputAttr(shapes) ==
    [x \in {Placeholder, Loss, Output(0)} |-> <<>>]
    @@ [x \in {<<nm, k, j>> : nm \in {"grad", "clone", "_tensor_constant",
                                      "allreduce_", "getitem", "wait_comm"},
                              k \in DOMAIN shapes, j \in 0..2} |-> shapes[x[2]]]

\* defect <<"none", 0>>: a well-formed graph; <<"empty", 0>>: no node at all;
\* <<"no_output", 0>>: no output node; <<"bad_pattern", k>>: the comm block of
\* element k lacks its first constant argument node
InputNodes(layout, defect) ==
    LET body == <<Placeholder, Loss>> \o LayoutNodes(layout)
    IN  CASE defect[1] = "empty" -> <<>>
          [] defect[1] = "no_output" -> body
          [] defect[1] = "bad_pattern" ->
                Without(body, TensorConstant(defect[2], 1)) \o <<Output(0)>>
          [] OTHER -> body \o <<Output(0)>>

-----------------------------------------------------------------------------
(* The calls the model explores *)

Strategies == {"ring", "cat", "jit"}

NoDefect == <<"none", 0>>

CanonicalShape == <<1, 3>>

CanonicalOut(n) == [k \in 1..n |-> WaitComm(k)]

\* Output argument lists over n wait nodes: any n of them in any order (a wait
\* node may be absent or repeated), with at most one None or non-gradient
\* entry anywhere in the list
OutLists(n) ==
    LET base == [1..n -> {WaitComm(k) : k \in 1..n}]
    IN  base \cup {InsertAt(b, p, x) : b \in base, p \in 0..n, x \in {None, Loss}}

Options ==
    {[strategy |-> "ring", fusion_length |-> f, ring_num_buffers |-> r] :
        f \in (0 - 1)..MaxFusionLength, r \in (0 - 1)..MaxRingBuffers}
    \cup {[strategy |-> s, fusion_length |-> f, ring_num_buffers |-> 0] :
        s \in {"cat", "jit"}, f \in (0 - 1)..MaxFusionLength}

\* well-formed graphs: every gradient shape and every node order, the output
\* node returning the reduced gradients in scan order
ShapedGraphs ==
    UNION {{[shapes |-> sh, layout |-> l, out |-> CanonicalOut(n), defect |-> NoDefect] :
              sh \in [1..n -> Shapes], l \in Layouts(n)} : n \in 0..MaxElems}

\* well-formed graphs with every output argument list
OutputGraphs ==
    UNION {{[shapes |-> [k \in 1..n |-> CanonicalShape], layout |-> CanonicalLayout(n),
             out |-> o, defect |-> NoDefect] : o \in OutLists(n)} : n \in 0..MaxElems}

\* malformed graphs
DefectGraphs ==
    UNION {{[shapes |-> [k \in 1..n |-> CanonicalShape], layout |-> CanonicalLayout(n),
             out |-> CanonicalOut(n), defect |-> d] :
              d \in {<<"no_output", 0>>} \cup {<<"bad_pattern", k>> : k \in 1..n}
                    \cup (IF n = 0 THEN {<<"empty", 0>>} ELSE {})} : n \in 0..MaxElems}

Graphs == ShapedGraphs \cup OutputGraphs \cup DefectGraphs

NumElems == Len(input.gm.shapes)

\* the graph as it is when the pass is entered
EntryNodes == InputNodes(input.gm.layout, input.gm.defect)

EntryArgs ==
    LET a == InputArgs(NumElems, input.gm.out)
        d == input.gm.defect
    IN  IF d[1] = "bad_pattern"
        THEN [a EXCEPT ![AllReduce(d[2])] = <<Clone(d[2]), TensorConstant(d[2], 2)>>]
        ELSE a

EntryAttr == InputAttr(input.gm.shapes)

\* GraphInfo()
NewGraphInfo ==
    [len |-> 0, num_starting_fe |-> 0, fe_list |-> <<>>, peak_memory_required |-> 0,
     ring_buffer |-> <<>>, global_buffer_size |-> 0, ring_num_buffers |-> 0,
     ring_index |-> 0, current_ring_index |-> 0, tracing_buffer |-> <<>>,
     output |-> None, fe_offset_to_comm_node |-> 0,
     wait_node_idx |-> [x \in {} |-> 0],
     actual_grad_index_mapping |-> [x \in {} |-> 0]]

NewLocals ==
    [new_output_args |-> <<>>, start |-> 0, stop |-> 0, curr_size |-> 0, i |-> 0,
     grad_nodes |-> <<>>, jit_buffer_node |-> None]

Init ==
    /\ input \in {[gm |-> g, opt |-> o] : g \in Graphs, o \in Options}
    /\ pc = "entry"
    /\ nodes = EntryNodes
    /\ args = EntryArgs
    /\ attr = EntryAttr
    /\ gi = NewGraphInfo
    /\ loc = NewLocals
    /\ fused = <<>>
    /\ users = [x \in {} |-> {}]

strategy == input.opt.strategy
fusion_length == input.opt.fusion_length
ring_num_buffers == input.opt.ring_num_buffers

-----------------------------------------------------------------------------
(* Setup and scan *)

\* get_output_node(gm): the graph's output node, None when it has none
get_output_node(ns) ==
    IF \E i \in DOMAIN ns : Op(ns[i]) = "output"
    THEN ns[CHOOSE i \in DOMAIN ns : Op(ns[i]) = "output"]
    ELSE None

\* the wait_node_idx entries update_info records for one output node: each
\* wait_comm argument maps to its slot, a later slot replacing an earlier one
WaitNodeIdx(out) ==
    [w \in {out[i] : i \in {j \in DOMAIN out : StartsWith(out[j], "wait_comm")}} |->
        CHOOSE i \in DOMAIN out : out[i] = w /\ \A j \in DOMAIN out : out[j] = w => j <= i]

\* update_info without its two checks: it never raises
update_info_NeverRaises(g, ns, ar) ==
    LET outs == {i \in DOMAIN ns : Op(ns[i]) = "output"}
        idx == IF outs = {} THEN g.wait_node_idx
               ELSE WaitNodeIdx(ar[ns[CHOOSE i \in outs : TRUE]])
    IN  [ok |-> TRUE,
         gi |-> [g EXCEPT !.len = Len(ns), !.wait_node_idx = idx,
                          !.output = get_output_node(ns)]]

\* GraphInfo.update_info; ok is FALSE when it raises
update_info(g, ns, ar) ==
    IF Len(ns) = 0 THEN [ok |-> FALSE, gi |-> g]
    ELSE LET outs == {i \in DOMAIN ns : Op(ns[i]) = "output"}
             idx == IF outs = {} THEN g.wait_node_idx
                    ELSE WaitNodeIdx(ar[ns[CHOOSE i \in outs : TRUE]])
             g2 == [g EXCEPT !.len = Len(ns), !.wait_node_idx = idx,
                             !.output = get_output_node(ns)]
         IN  [ok |-> g2.output # None, gi |-> g2]

\* the entry without the ring pass's fusion_length assertion
Setup_NoLengthCheck ==
    /\ pc = "entry"
    /\ LET r == update_info(gi, nodes, args)
       IN  /\ gi' = r.gi
           /\ pc' = IF r.ok THEN "scan" ELSE "aborted"
    /\ UNCHANGED <<input, nodes, args, attr, loc, fused, users>>

\* The entry of each pass: the ring pass checks fusion_length, then all three
\* recompile and gather the graph info
Setup ==
    /\ pc = "entry"
    /\ IF strategy = "ring" /\ ~(fusion_length > 1)
       THEN pc' = "aborted" /\ gi' = gi
       ELSE LET r == update_info(gi, nodes, args)
            IN  /\ gi' = r.gi
                /\ pc' = IF r.ok THEN "scan" ELSE "aborted"
    /\ UNCHANGED <<input, nodes, args, attr, loc, fused, users>>

\* the node names of an allreduce comm block, in program order, and the
\* position of the collective in it (0-based, as the scanner uses it)
CommBlockPattern ==
    <<"clone", "_tensor_constant", "_tensor_constant", "allreduce_", "getitem",
      "wait_comm">>

CommIdx == 3

\* get_comm_block_nodes(wait_node, comm_type): walks back from the wait node
\* through the fixed pattern; ok is FALSE when the pattern is absent
get_comm_block_nodes(ns, wait_node) ==
    LET p == Pos(ns, wait_node)
        m == Len(CommBlockPattern)
        blk == IF p >= m THEN SubSeq(ns, p - m + 1, p) ELSE <<>>
    IN  [ok |-> p >= m /\ \A i \in 1..m : blk[i][1] = CommBlockPattern[i],
         comm_idx |-> CommIdx,
         node_list |-> blk]

\* a FusionElement recording the clone's source instead of the reduction's
\* first argument
FusionElement_RecordsSource(ns, ar, at, wait_node) ==
    LET blk == get_comm_block_nodes(ns, wait_node)
        comm_node == blk.node_list[blk.comm_idx + 1]
        grad_node == ar[ar[comm_node][1]][1]
    IN  [in_graph |-> FALSE, processed |-> FALSE,
         size |-> Numel(at[grad_node]), shape |-> at[grad_node],
         node_list |-> blk.node_list,
         prev_node |-> PrevOf(ns, blk.node_list[1]),
         wait_node |-> wait_node, comm_node |-> comm_node,
         grad_tensor_node |-> grad_node]

\* the FusionElement the scanner builds for one wait node
FusionElement(ns, ar, at, wait_node) ==
    LET blk == get_comm_block_nodes(ns, wait_node)
        comm_node == blk.node_list[blk.comm_idx + 1]
        grad_node == ar[comm_node][1]
    IN  [in_graph |-> FALSE, processed |-> FALSE,
         size |-> Numel(at[grad_node]), shape |-> at[grad_node],
         node_list |-> blk.node_list,
         prev_node |-> PrevOf(ns, blk.node_list[1]),
         wait_node |-> wait_node, comm_node |-> comm_node,
         grad_tensor_node |-> grad_node]

\* _scan_graph_for_fusion_elements; ok is FALSE when a block does not match
scan_graph_for_fusion_elements(ns, ar, at) ==
    LET waits == SelectSeq(ns, LAMBDA x : StartsWith(x, "wait_comm"))
        good == \A i \in DOMAIN waits : get_comm_block_nodes(ns, waits[i]).ok
    IN  [ok |-> good,
         fe_list |-> IF good
                     THEN [i \in DOMAIN waits |-> FusionElement(ns, ar, at, waits[i])]
                     ELSE <<>>]

Scan ==
    /\ pc = "scan"
    /\ LET r == scan_graph_for_fusion_elements(nodes, args, attr)
       IN  IF r.ok
           THEN /\ gi' = [gi EXCEPT
                             !.fe_list = r.fe_list,
                             !.num_starting_fe =
                                 IF strategy = "ring" THEN Len(r.fe_list) ELSE @,
                             !.fe_offset_to_comm_node =
                                 IF r.fe_list = <<>> THEN @
                                 ELSE Len(CommBlockPattern) - CommIdx - 1]
                /\ pc' = IF strategy = "ring" THEN "peak" ELSE "check"
           ELSE /\ gi' = gi
                /\ pc' = "aborted"
    /\ UNCHANGED <<input, nodes, args, attr, loc, fused, users>>

-----------------------------------------------------------------------------
(* Ring pass: peak memory and buffers *)

\* the loop of _determine_peak_memory over fe_list[i..]
RECURSIVE PeakLoop(_, _, _, _, _, _)
PeakLoop(fe_list, i, fl, peak_memory, curr_memory, curr_fe_index) ==
    IF i > Len(fe_list) THEN peak_memory
    ELSE LET idx == curr_fe_index + 1
             mem == curr_memory + fe_list[i].size
         IN  IF idx = fl
             THEN PeakLoop(fe_list, i + 1, fl, Max(peak_memory, mem), 0, 0)
             ELSE PeakLoop(fe_list, i + 1, fl, peak_memory, mem, idx)

determine_peak_memory(fe_list, fl) == PeakLoop(fe_list, 1, fl, 0, 0, 0)

DeterminePeakMemory ==
    /\ pc = "peak"
    /\ LET peak == determine_peak_memory(gi.fe_list, fusion_length)
       IN  /\ gi' = [gi EXCEPT !.peak_memory_required = peak]
           /\ pc' = IF peak > 0 THEN "buffers" ELSE "aborted"
    /\ UNCHANGED <<input, nodes, args, attr, loc, fused, users>>

RingBuffer(i) == <<"empty", i, 0>>

\* _create_fusion_buffers: ring_size torch.empty nodes before the first node
\* that is no placeholder, then setup_ring_buffer
CreateFusionBuffers ==
    /\ pc = "buffers"
    /\ LET buffer_size == gi.peak_memory_required
           first == CHOOSE i \in DOMAIN nodes :
                       /\ Op(nodes[i]) # "placeholder"
                       /\ \A j \in 1..(i - 1) : Op(nodes[j]) = "placeholder"
           ring_buffer == [i \in 1..Max(ring_num_buffers, 0) |-> RingBuffer(i)]
       IN  /\ nodes' = CreateAllBefore(nodes, nodes[first], ring_buffer)
           /\ args' = [x \in Range(ring_buffer) |-> <<>>] @@ args
           /\ attr' = [x \in Range(ring_buffer) |-> <<buffer_size>>] @@ attr
           /\ IF ring_buffer = <<>>
              THEN pc' = "aborted" /\ gi' = gi
              ELSE /\ pc' = "check"
                   /\ gi' = [gi EXCEPT !.ring_buffer = ring_buffer,
                                       !.ring_num_buffers = Len(ring_buffer),
                                       !.ring_index = 0,
                                       !.global_buffer_size = buffer_size]
    /\ UNCHANGED <<input, loc, fused, users>>

-----------------------------------------------------------------------------
(* Output check and gradient positions *)

\* the gradients' positions counted from the end of the node list
map_local_gradients_FromEnd(ns, ar, fe_list) ==
    LET actual_gradients == {ar[fe_list[i].grad_tensor_node][1] : i \in DOMAIN fe_list}
    IN  [g \in actual_gradients \cap Range(ns) |-> Len(ns) - Pos(ns, g)]

\* the position of every actual gradient (the clones' sources) in the graph
map_local_gradients(ns, ar, fe_list) ==
    LET actual_gradients == {ar[fe_list[i].grad_tensor_node][1] : i \in DOMAIN fe_list}
    IN  [g \in actual_gradients \cap Range(ns) |-> Pos(ns, g) - 1]

\* the wait-node count assertion, the working copy of the output arguments,
\* the gradient position map, and the evaluation of the group loop's range
CheckOutputs ==
    /\ pc = "check"
    /\ IF Cardinality(DOMAIN gi.wait_node_idx) # Len(gi.fe_list)
       THEN pc' = "aborted" /\ UNCHANGED <<gi, loc>>
       ELSE /\ loc' = [loc EXCEPT !.new_output_args = args[gi.output]]
            /\ gi' = [gi EXCEPT !.actual_grad_index_mapping =
                                    map_local_gradients(nodes, args, gi.fe_list)]
            /\ pc' = CASE strategy = "cat" /\ fusion_length = 0 -> "aborted"
                        [] strategy = "jit" ->
                             IF Len(gi.fe_list) > 0 THEN "loop" ELSE "leftover"
                        [] OTHER ->
                             IF fusion_length > 0 /\ Len(gi.fe_list) > 0
                             THEN "fuse" ELSE "output"
    /\ UNCHANGED <<input, nodes, args, attr, fused, users>>

-----------------------------------------------------------------------------
(* Groups *)

\* the element number of a FusionElement: that of its wait node
ElemOf(fe) == fe.wait_node[2]

ElemsOf(fe_list) == [i \in DOMAIN fe_list |-> ElemOf(fe_list[i])]

Sizes(fe_list) == [i \in DOMAIN fe_list |-> fe_list[i].size]

\* offset advanced before it is used: member j placed behind its own size
OffsetOf_AdvancedFirst(fe_list, j) == SumSeq(SubSeq(Sizes(fe_list), 1, j))

\* the offset of member j of a group: the sizes of the members before it
OffsetOf(fe_list, j) == SumSeq(SubSeq(Sizes(fe_list), 1, j - 1))

\* the group's last member taken as the one with the last gradient
get_last_grad_node_LastMember(g, ar, copy_list) == Len(copy_list)

\* _get_last_grad_node_from_fe_group: the member whose actual gradient has the
\* greatest recorded position (the first such member)
get_last_grad_node_from_fe_group(g, ar, copy_list) ==
    LET grad_index_mapping ==
            [i \in DOMAIN copy_list |->
                g.actual_grad_index_mapping[ar[copy_list[i].grad_tensor_node][1]]]
        top == CHOOSE v \in Range(grad_index_mapping) :
                   \A w \in Range(grad_index_mapping) : w <= v
    IN  IndexOf(grad_index_mapping, top)

\* rewiring the reduction of the group's first member instead of its last
fused_comm_node_First(copy_list) == copy_list[1].comm_node

\* the reduction node a fuse step rewires to the group's staging value and
\* keeps: copy_list[-1].comm_node
fused_comm_node(copy_list) == copy_list[Len(copy_list)].comm_node

\* the fuse step's to_fuse_fe_list
CurrentGroup == PySlice(gi.fe_list, loc.start, loc.stop)

\* the group loop giving up one element early
AfterGroup_StopsEarly(first) ==
    IF fusion_length > 0 /\ first + 1 < Len(gi.fe_list) THEN "fuse" ELSE "output"

\* where the count-based group loop goes with its loop variable at first
AfterGroup(first) ==
    IF fusion_length > 0 /\ first < Len(gi.fe_list) THEN "fuse" ELSE "output"

-----------------------------------------------------------------------------
(* Ring pass: one group *)

PackView(e) == <<"view", e, 0>>
PackSlice(e) == <<"slice", e, 0>>
PackCopy(e) == <<"copy", e, 0>>
UnpackSlice(e) == <<"slice", e, 1>>
UnpackView(e) == <<"view", e, 1>>
UnpackCopy(e) == <<"copy", e, 1>>

\* GraphInfo.get_next_ring_buffer
get_next_ring_buffer(g) ==
    LET nxt == g.ring_index + 1
    IN  [buffer_node |-> g.ring_buffer[g.ring_index + 1],
         gi |-> [g EXCEPT !.current_ring_index = g.ring_index,
                          !.ring_index = IF nxt >= g.ring_num_buffers THEN 0 ELSE nxt]]

\* the current buffer read through the index of the next one
get_current_ring_buffer_UsesNext(g) == g.ring_buffer[g.ring_index + 1]

\* GraphInfo.get_current_ring_buffer
get_current_ring_buffer(g) == g.ring_buffer[g.current_ring_index + 1]

\* the length of the Python slice buffer[off : off + size] of a buffer of
\* buffer_size elements
SliceLen(off, size, buffer_size) ==
    Max(0, Min(off + size, buffer_size) - Min(off, buffer_size))

\* copy_to_buffer runs on real tensors when it is traced: assigning size
\* elements to a slice needs a slice of that length (one element broadcasts)
copy_to_buffer_ok(copy_list, buffer_size) ==
    \A j \in DOMAIN copy_list :
        LET len == SliceLen(OffsetOf(copy_list, j), copy_list[j].size, buffer_size)
        IN  len = copy_list[j].size \/ copy_list[j].size = 1

\* scatter_from_buffer, traced: viewing a slice in a member's shape needs a
\* slice of the member's size
scatter_from_buffer_ok(scatter_list, buffer_size) ==
    \A j \in DOMAIN scatter_list :
        SliceLen(OffsetOf(scatter_list, j), scatter_list[j].size, buffer_size)
            = scatter_list[j].size

\* the loop moving the clone nodes behind curr_node
RECURSIVE MoveCloneNodes(_, _, _)
MoveCloneNodes(ns, curr_node, items) ==
    IF items = <<>> THEN [nodes |-> ns, curr_node |-> curr_node]
    ELSE LET ns2 == IF NextOf(ns, curr_node) # Head(items)
                    THEN AppendAfter(ns, curr_node, Head(items))
                    ELSE ns
         IN  MoveCloneNodes(ns2, NextOf(ns2, curr_node), Tail(items))

\* the loops appending nodes behind curr_node unconditionally
RECURSIVE MoveNodes(_, _, _)
MoveNodes(ns, curr_node, items) ==
    IF items = <<>> THEN [nodes |-> ns, curr_node |-> curr_node]
    ELSE LET ns2 == AppendAfter(ns, curr_node, Head(items))
         IN  MoveNodes(ns2, NextOf(ns2, curr_node), Tail(items))

\* the call-function nodes of the traced copy_to_buffer, per member
PackNodes(copy_list) ==
    Concat([j \in DOMAIN copy_list |->
              LET e == ElemOf(copy_list[j])
              IN  <<PackView(e), PackSlice(e), PackCopy(e)>>])

\* the call-function nodes of the traced scatter_from_buffer, per member
UnpackNodes(scatter_list) ==
    Concat([j \in DOMAIN scatter_list |->
              LET e == ElemOf(scatter_list[j])
              IN  <<UnpackSlice(e), UnpackView(e), UnpackCopy(e)>>])

MemberOf(fe_list, e) == CHOOSE j \in DOMAIN fe_list : ElemOf(fe_list[j]) = e

\* node.users[user] = "": one entry written into a node's users
AddUser(us, node, user) ==
    [x \in DOMAIN us \cup {node} |->
        IF x = node THEN (IF x \in DOMAIN us THEN us[x] ELSE {}) \cup {user}
        ELSE us[x]]

\* for node in new_nodes: node.users[node.args[0]] = ""
RECURSIVE AddUsers(_, _, _)
AddUsers(us, ar, new_nodes) ==
    IF new_nodes = <<>> THEN us
    ELSE AddUsers(AddUser(us, Head(new_nodes), ar[Head(new_nodes)][1]), ar,
                  Tail(new_nodes))

\* the users update finding no node to update
update_new_copy_nodes_users_NoMatch(us, ar, new_nodes) == us

\* _update_new_copy_nodes_users over the nodes copied into the graph
update_new_copy_nodes_users(us, ar, new_nodes) ==
    AddUsers(us, ar, SelectSeq(new_nodes, LAMBDA x : StartsWith(x, "copy")))

\* the unpack nodes inserted before the last node of the section itself
get_next_node_OfSectionEnd(ns, fe) == fe.node_list[Len(fe.node_list)]

\* FusionElement._get_next_node: the node after the element's section
get_next_node(ns, fe) == NextOf(ns, fe.node_list[Len(fe.node_list)])

\* _copy_fe_to_buffer for the group fe_list[start:stop]
CopyFeToBuffer ==
    /\ pc = "fuse"
    /\ strategy = "ring"
    /\ LET stop == loc.start + fusion_length
           copy_list == PySlice(gi.fe_list, loc.start, stop)
           nb == get_next_ring_buffer(gi)
           buffer_node == nb.buffer_node
           buffer_size == gi.global_buffer_size
           g2 == [nb.gi EXCEPT !.tracing_buffer =
                                  IF @ = <<>> THEN <<buffer_size>> ELSE @]
           last == copy_list[Len(copy_list)]
           all_grad_nodes == [j \in DOMAIN copy_list |-> copy_list[j].grad_tensor_node]
           source_node ==
               args[copy_list[get_last_grad_node_from_fe_group(gi, args, copy_list)]
                        .grad_tensor_node][1]
           m1 == MoveCloneNodes(nodes, source_node, all_grad_nodes)
           constant_list == <<last.node_list[2], last.node_list[3]>>
           m2 == MoveNodes(m1.nodes, m1.curr_node, constant_list)
           buffer_comm_node == fused_comm_node(copy_list)
           m3 == MoveNodes(m2.nodes, m2.curr_node, <<buffer_comm_node>>)
           pack == PackNodes(copy_list)
           elems == Range(ElemsOf(copy_list))
           pack_args ==
               [x \in Range(pack) |->
                   CASE x[1] = "view" ->
                          <<copy_list[MemberOf(copy_list, x[2])].grad_tensor_node>>
                     [] x[1] = "slice" -> <<buffer_node>>
                     [] OTHER -> <<PackSlice(x[2]), PackView(x[2])>>]
       IN  /\ loc' = [loc EXCEPT !.stop = stop]
           /\ fused' = Append(fused, ElemsOf(copy_list))
           /\ gi' = g2
           /\ IF \/ ~copy_to_buffer_ok(copy_list, g2.tracing_buffer[1])
                 \/ \E j \in DOMAIN all_grad_nodes : ~StartsWith(all_grad_nodes[j], "clone")
              THEN pc' = "aborted" /\ UNCHANGED <<nodes, args, attr, users>>
              ELSE IF \E j \in 1..2 : ~StartsWith(constant_list[j], "_tensor_constant")
              THEN pc' = "aborted" /\ nodes' = m1.nodes /\ UNCHANGED <<args, attr, users>>
              ELSE /\ pc' = "scatter"
                   /\ nodes' = CreateAllBefore(m3.nodes, m3.curr_node, pack)
                   /\ args' = pack_args @@ [args EXCEPT ![buffer_comm_node][1] = buffer_node]
                   /\ users' = update_new_copy_nodes_users(users, pack_args, pack)
                   /\ attr' =
                        [x \in Range(pack) |->
                            LET j == MemberOf(copy_list, x[2])
                                off == OffsetOf(copy_list, j)
                            IN  CASE x[1] = "view" -> <<0 - 1>>
                                  [] x[1] = "slice" -> <<off, off + copy_list[j].size>>
                                  [] OTHER -> <<>>]
                        @@ attr
    /\ UNCHANGED input

\* _scatter_results_from_buffer for the group just packed
ScatterResultsFromBuffer ==
    /\ pc = "scatter"
    /\ strategy = "ring"
    /\ LET fe_list == CurrentGroup
           last == fe_list[Len(fe_list)]
           buffer_node == get_current_ring_buffer(gi)
           insert_node == get_next_node(nodes, last)
           unpack == UnpackNodes(fe_list)
           last_get_item_node == args[last.wait_node][1]
           section_wait_node == last.wait_node
           unpack_args ==
               [x \in Range(unpack) |->
                   CASE x[1] = "slice" -> <<buffer_node>>
                     [] x[1] = "view" -> <<UnpackSlice(x[2])>>
                     [] OTHER ->
                          <<fe_list[MemberOf(fe_list, x[2])].grad_tensor_node,
                            UnpackView(x[2])>>]
       IN  IF ~scatter_from_buffer_ok(fe_list, gi.tracing_buffer[1])
           THEN pc' = "aborted" /\ UNCHANGED <<nodes, args, attr, users>>
           ELSE /\ pc' = "finalize"
                /\ nodes' = CreateAllBefore(nodes, insert_node, unpack)
                /\ args' = unpack_args @@ args
                /\ users' = AddUser(update_new_copy_nodes_users(users, unpack_args, unpack),
                                    section_wait_node, args[section_wait_node][1])
                /\ attr' =
                     [x \in Range(unpack) |->
                         LET j == MemberOf(fe_list, x[2])
                             off == OffsetOf(fe_list, j)
                         IN  CASE x[1] = "slice" -> <<off, off + fe_list[j].size>>
                               [] x[1] = "view" -> fe_list[j].shape
                               [] OTHER -> <<>>]
                     @@ [attr EXCEPT ![last_get_item_node] = gi.tracing_buffer]
    /\ UNCHANGED <<input, gi, loc, fused>>

\* the slot loop of _finalize_output_node, from member i on; ok is FALSE when
\* the slot check or the replacement lookup fails
RECURSIVE finalize_slots(_, _, _, _)
finalize_slots(out, fe_list, first, i) ==
    IF i > Len(fe_list) THEN [ok |-> TRUE, out |-> out]
    ELSE LET index == first + i
             curr_node == out[index]
             members == {j \in DOMAIN fe_list : fe_list[j].wait_node = curr_node}
         IN  IF index > Len(out) THEN [ok |-> FALSE, out |-> out]
             ELSE IF curr_node = None THEN finalize_slots(out, fe_list, first, i + 1)
             ELSE IF ~StartsWith(curr_node, "wait") \/ members = {}
             THEN [ok |-> FALSE, out |-> out]
             ELSE finalize_slots(
                     [out EXCEPT ![index] =
                         fe_list[CHOOSE j \in members : TRUE].grad_tensor_node],
                     fe_list, first, i + 1)

\* _finalize_output_node(fe_list, start, stop, new_output_args)
finalize_output_node(out, fe_list, first) == finalize_slots(out, fe_list, first, 1)

FinalizeOutputNode ==
    /\ pc = "finalize"
    /\ strategy = "ring"
    /\ LET r == finalize_output_node(loc.new_output_args, CurrentGroup, loc.start)
       IN  /\ loc' = [loc EXCEPT !.new_output_args = r.out,
                                 !.start = IF r.ok THEN @ + fusion_length ELSE @]
           /\ pc' = IF r.ok THEN AfterGroup(loc.start + fusion_length) ELSE "aborted"
    /\ UNCHANGED <<input, nodes, args, attr, gi, fused, users>>

-----------------------------------------------------------------------------
(* Cat pass: one group *)

Flatten(e) == <<"flatten", e, 0>>
Cat(e) == <<"cat", e, 0>>
Split(e) == <<"split", e, 1>>
SplitItem(e) == <<"getitem", e, 1>>
Reshape(e) == <<"reshape", e, 1>>

\* successive create_node calls under one inserting_after(anchor)
RECURSIVE CreateAllAfter(_, _, _)
CreateAllAfter(ns, anchor, xs) ==
    IF xs = <<>> THEN ns
    ELSE CreateAllAfter(CreateAfter(ns, anchor, Head(xs)), anchor, Tail(xs))

\* for node in nodes_to_move: anchor.append(node)
RECURSIVE AppendAllAfter(_, _, _)
AppendAllAfter(ns, anchor, xs) ==
    IF xs = <<>> THEN ns
    ELSE AppendAllAfter(AppendAfter(ns, anchor, Head(xs)), anchor, Tail(xs))

\* _fuse_with_cat for the group fe_list[start : start + fusion_length]
FuseWithCat ==
    /\ pc = "fuse"
    /\ strategy = "cat"
    /\ LET stop == loc.start + fusion_length
           copy_list == PySlice(gi.fe_list, loc.start, stop)
           last == copy_list[Len(copy_list)]
           last_grad_tensor_node ==
               args[copy_list[get_last_grad_node_from_fe_group(gi, args, copy_list)]
                        .grad_tensor_node][1]
           cat_inputs == [j \in DOMAIN copy_list |-> Flatten(ElemOf(copy_list[j]))]
           cat_node == Cat(ElemOf(last))
           comm_node == fused_comm_node(copy_list)
           n1 == CreateAllAfter(nodes, last_grad_tensor_node, cat_inputs)
           n2 == CreateAfter(n1, cat_inputs[1], cat_node)
           nodes_to_move ==
               <<comm_node, args[comm_node][2], args[comm_node][3],
                 cat_node>> \o cat_inputs
       IN  /\ loc' = [loc EXCEPT !.stop = stop]
           /\ fused' = Append(fused, ElemsOf(copy_list))
           /\ IF \E j \in DOMAIN copy_list :
                    ~StartsWith(copy_list[j].grad_tensor_node, "clone")
              THEN pc' = "aborted" /\ UNCHANGED <<nodes, args, attr>>
              ELSE /\ pc' = "scatter"
                   /\ nodes' = AppendAllAfter(n2, last_grad_tensor_node, nodes_to_move)
                   /\ args' =
                        [x \in Range(cat_inputs) |->
                            <<args[copy_list[MemberOf(copy_list, x[2])].grad_tensor_node][1]>>]
                        @@ (cat_node :> cat_inputs)
                        @@ [args EXCEPT ![comm_node][1] = cat_node]
                   /\ attr' = [x \in Range(cat_inputs) \cup {cat_node} |-> <<>>] @@ attr
    /\ UNCHANGED <<input, gi, users>>

\* the getitem and reshape nodes of _scatter_results, member by member
RECURSIVE CreateSplitItems(_, _, _)
CreateSplitItems(ns, scatter_node, elems) ==
    IF elems = <<>> THEN ns
    ELSE LET n1 == CreateAfter(ns, scatter_node, SplitItem(Head(elems)))
             n2 == CreateAfter(n1, SplitItem(Head(elems)), Reshape(Head(elems)))
         IN  CreateSplitItems(n2, scatter_node, Tail(elems))

\* _scatter_results for the group just fused
ScatterResults ==
    /\ pc = "scatter"
    /\ strategy = "cat"
    /\ LET scatter_list == CurrentGroup
           last == scatter_list[Len(scatter_list)]
           wait_node == last.wait_node
           scatter_node == Split(ElemOf(last))
           elems == ElemsOf(scatter_list)
           items == {SplitItem(elems[j]) : j \in DOMAIN elems}
           reshapes == {Reshape(elems[j]) : j \in DOMAIN elems}
       IN  /\ nodes' = CreateSplitItems(CreateAfter(nodes, wait_node, scatter_node),
                                        scatter_node, elems)
           /\ args' = (scatter_node :> <<wait_node>>)
                      @@ [x \in items |-> <<scatter_node>>]
                      @@ [x \in reshapes |-> <<SplitItem(x[2])>>]
                      @@ args
           /\ attr' = (scatter_node :> Sizes(scatter_list))
                      @@ [x \in items |-> <<MemberOf(scatter_list, x[2]) - 1>>]
                      @@ [x \in reshapes |->
                            scatter_list[MemberOf(scatter_list, x[2])].shape]
                      @@ attr
           /\ loc' = [loc EXCEPT !.grad_nodes = [j \in DOMAIN elems |-> Reshape(elems[j])]]
    /\ pc' = "finalize"
    /\ UNCHANGED <<input, gi, fused, users>>

\* the loop of _update_output_args from member i on; ok is FALSE when a wait
\* node has no recorded slot
RECURSIVE update_slots(_, _, _, _, _)
update_slots(g, fe_list, output_args, grad_nodes, i) ==
    IF i > Min(Len(fe_list), Len(grad_nodes)) THEN [ok |-> TRUE, out |-> output_args]
    ELSE IF fe_list[i].wait_node \notin DOMAIN g.wait_node_idx
    THEN [ok |-> FALSE, out |-> output_args]
    ELSE update_slots(g, fe_list,
                      [output_args EXCEPT ![g.wait_node_idx[fe_list[i].wait_node]] =
                                              grad_nodes[i]],
                      grad_nodes, i + 1)

\* _update_output_args(gi, gm, fe_list, output_args, grad_nodes)
update_output_args(g, fe_list, output_args, grad_nodes) ==
    update_slots(g, fe_list, output_args, grad_nodes, 1)

\* the output rewrite that ends a group of the cat and the JIT driver, and
\* the driver's step to its next group
UpdateOutputArgs ==
    /\ pc = "finalize"
    /\ strategy \in {"cat", "jit"}
    /\ LET r == update_output_args(gi, CurrentGroup, loc.new_output_args, loc.grad_nodes)
           n == Len(gi.fe_list)
       IN  IF ~r.ok
           THEN /\ pc' = "aborted"
                /\ loc' = [loc EXCEPT !.new_output_args = r.out]
           ELSE IF strategy = "cat"
           THEN /\ pc' = AfterGroup(loc.start + fusion_length)
                /\ loc' = [loc EXCEPT !.new_output_args = r.out,
                                      !.start = @ + fusion_length]
           ELSE IF loc.i >= n
           THEN /\ pc' = "output"
                /\ loc' = [loc EXCEPT !.new_output_args = r.out]
           ELSE /\ pc' = IF loc.i + 1 < n THEN "loop" ELSE "leftover"
                /\ loc' = [loc EXCEPT !.new_output_args = r.out, !.curr_size = 0,
                                      !.start = loc.stop, !.i = @ + 1]
    /\ UNCHANGED <<input, nodes, args, attr, gi, fused, users>>

-----------------------------------------------------------------------------
(* JIT pass *)

JitBuffer(e) == <<"empty", e, 1>>

\* the JIT buffer sized by the number of members instead of their elements
buffer_size_needed_CountsMembers(copy_list) == Len(copy_list)

\* buffer_size_needed = sum([item.size for item in copy_list])
buffer_size_needed(copy_list) == SumSeq(Sizes(copy_list))

\* the budget test cutting a group only once the budget is exceeded
JitAccumulate_StrictlyOver ==
    /\ pc = "loop"
    /\ strategy = "jit"
    /\ LET bucket_size == fusion_length * MB
           size == loc.curr_size + gi.fe_list[loc.i + 1].size * FP32_BYTES
       IN  IF size > bucket_size
           THEN /\ pc' = "fuse"
                /\ loc' = [loc EXCEPT !.curr_size = size, !.stop = loc.i + 1]
           ELSE /\ pc' = IF loc.i + 1 < Len(gi.fe_list) THEN "loop" ELSE "leftover"
                /\ loc' = [loc EXCEPT !.curr_size = size, !.i = @ + 1]
    /\ UNCHANGED <<input, nodes, args, attr, gi, fused, users>>

\* one iteration of the driver's loop over fe_list up to its budget test
JitAccumulate ==
    /\ pc = "loop"
    /\ strategy = "jit"
    /\ LET bucket_size == fusion_length * MB
           size == loc.curr_size + gi.fe_list[loc.i + 1].size * FP32_BYTES
       IN  IF size >= bucket_size
           THEN /\ pc' = "fuse"
                /\ loc' = [loc EXCEPT !.curr_size = size, !.stop = loc.i + 1]
           ELSE /\ pc' = IF loc.i + 1 < Len(gi.fe_list) THEN "loop" ELSE "leftover"
                /\ loc' = [loc EXCEPT !.curr_size = size, !.i = @ + 1]
    /\ UNCHANGED <<input, nodes, args, attr, gi, fused, users>>

\* after the loop: the leftover elements, if any, form the last group
JitLeftover ==
    /\ pc = "leftover"
    /\ strategy = "jit"
    /\ IF loc.start < Len(gi.fe_list)
       THEN /\ pc' = "fuse"
            /\ loc' = [loc EXCEPT !.stop = Len(gi.fe_list), !.i = Len(gi.fe_list)]
       ELSE /\ pc' = "output"
            /\ loc' = [loc EXCEPT !.i = Len(gi.fe_list)]
    /\ UNCHANGED <<input, nodes, args, attr, gi, fused, users>>

\* for node in nodes_to_move: insert_node.prepend(node)
RECURSIVE PrependAll(_, _, _)
PrependAll(ns, insert_node, xs) ==
    IF xs = <<>> THEN ns
    ELSE PrependAll(Prepend(ns, insert_node, Head(xs)), insert_node, Tail(xs))

\* _fuse_with_jit for the group fe_list[start:stop]
FuseWithJit ==
    /\ pc = "fuse"
    /\ strategy = "jit"
    /\ LET copy_list == CurrentGroup
           last == copy_list[Len(copy_list)]
           last_grad_tensor_node ==
               args[copy_list[get_last_grad_node_from_fe_group(gi, args, copy_list)]
                        .grad_tensor_node][1]
           jit_buffer_node == JitBuffer(ElemOf(last))
           pack == PackNodes(copy_list)
           jit_inputs == <<jit_buffer_node>> \o pack
           comm_node == fused_comm_node(copy_list)
           created == nodes \o jit_inputs
           nodes_to_move ==
               jit_inputs \o <<args[comm_node][2], args[comm_node][3],
                               comm_node>>
           insert_node == NextOf(created, last_grad_tensor_node)
           pack_args ==
               [x \in Range(pack) |->
                   CASE x[1] = "view" ->
                          <<args[copy_list[MemberOf(copy_list, x[2])]
                                    .grad_tensor_node][1]>>
                     [] x[1] = "slice" -> <<jit_buffer_node>>
                     [] OTHER -> <<PackSlice(x[2]), PackView(x[2])>>]
           copy_nodes == [j \in DOMAIN copy_list |-> PackCopy(ElemOf(copy_list[j]))]
       IN  /\ fused' = Append(fused, ElemsOf(copy_list))
           /\ IF \E j \in DOMAIN copy_list :
                    ~StartsWith(copy_list[j].grad_tensor_node, "clone")
              THEN pc' = "aborted" /\ UNCHANGED <<nodes, args, attr, loc, users>>
              ELSE /\ pc' = "scatter"
                   /\ nodes' = PrependAll(created, insert_node, nodes_to_move)
                   /\ args' =
                        (jit_buffer_node :> <<>>)
                        @@ pack_args
                        @@ [args EXCEPT ![comm_node][1] = jit_buffer_node]
                   /\ users' = AddUsers(AddUser(users, comm_node, jit_buffer_node),
                                        pack_args, copy_nodes)
                   /\ attr' =
                        (jit_buffer_node :> <<buffer_size_needed(copy_list)>>)
                        @@ [x \in Range(pack) |->
                            LET j == MemberOf(copy_list, x[2])
                                off == OffsetOf(copy_list, j)
                            IN  CASE x[1] = "view" -> <<0 - 1>>
                                  [] x[1] = "slice" -> <<off, off + copy_list[j].size>>
                                  [] OTHER -> <<>>]
                        @@ attr
                   /\ loc' = [loc EXCEPT !.jit_buffer_node = jit_buffer_node]
    /\ UNCHANGED <<input, gi>>

\* _scatter_results_jit for the group just fused
ScatterResultsJit ==
    /\ pc = "scatter"
    /\ strategy = "jit"
    /\ LET scatter_list == CurrentGroup
           last == scatter_list[Len(scatter_list)]
           wait_node == last.wait_node
           elems == ElemsOf(scatter_list)
           scatter_nodes ==
               Concat([j \in DOMAIN elems |-> <<UnpackSlice(elems[j]), UnpackView(elems[j])>>])
           created == nodes \o scatter_nodes
           insert_node == NextOf(created, wait_node)
           scatter_args ==
               [x \in Range(scatter_nodes) |->
                   IF x[1] = "slice" THEN <<loc.jit_buffer_node>>
                   ELSE <<UnpackSlice(x[2])>>]
           view_nodes == [j \in DOMAIN elems |-> UnpackView(elems[j])]
       IN  /\ nodes' = PrependAll(created, insert_node, scatter_nodes)
           /\ args' = scatter_args @@ args
           /\ users' = AddUsers(AddUser(users, wait_node, args[wait_node][1]),
                                scatter_args, view_nodes)
           /\ attr' = [x \in Range(scatter_nodes) |->
                          LET j == MemberOf(scatter_list, x[2])
                              off == OffsetOf(scatter_list, j)
                          IN  IF x[1] = "slice"
                              THEN <<off, off + scatter_list[j].size>>
                              ELSE scatter_list[j].shape]
                      @@ attr
           /\ loc' = [loc EXCEPT !.grad_nodes = [j \in DOMAIN elems |-> UnpackView(elems[j])]]
    /\ pc' = "finalize"
    /\ UNCHANGED <<input, gi, fused>>

-----------------------------------------------------------------------------
(* Output node and rebuild *)

\* the new output node created without erasing the old one
RecreateOutput_KeepsOld ==
    /\ pc = "output"
    /\ nodes' = Append(nodes, Output(1))
    /\ args' = (Output(1) :> loc.new_output_args) @@ args
    /\ attr' = (Output(1) :> <<>>) @@ attr
    /\ pc' = "rebuild"
    /\ UNCHANGED <<input, gi, loc, fused, users>>

\* gm.graph.erase_node(graph_info.output); gm.graph.output(new_output_args)
RecreateOutput ==
    /\ pc = "output"
    /\ nodes' = Append(Without(nodes, gi.output), Output(1))
    /\ args' = (Output(1) :> loc.new_output_args) @@ args
    /\ attr' = (Output(1) :> <<>>) @@ attr
    /\ pc' = "rebuild"
    /\ UNCHANGED <<input, gi, loc, fused, users>>

\* rebuild_graph(gm)
Rebuild ==
    /\ pc = "rebuild"
    /\ pc' = "done"
    /\ UNCHANGED <<input, nodes, args, attr, gi, loc, fused, users>>

Next ==
    \/ Setup
    \/ Scan
    \/ DeterminePeakMemory
    \/ CreateFusionBuffers
    \/ CheckOutputs
    \/ CopyFeToBuffer
    \/ ScatterResultsFromBuffer
    \/ FinalizeOutputNode
    \/ FuseWithCat
    \/ ScatterResults
    \/ UpdateOutputArgs
    \/ JitAccumulate
    \/ JitLeftover
    \/ FuseWithJit
    \/ ScatterResultsJit
    \/ RecreateOutput
    \/ Rebuild

Spec == Init /\ [][Next]_vars

-----------------------------------------------------------------------------
(* Vocabulary of the properties *)

\* the element count of gradient k, from the input graph
InSize(k) == Numel(input.gm.shapes[k])

\* the elements handed to a fuse step so far
FusedElems == UNION {Range(fused[g]) : g \in DOMAIN fused}

\* the node that delivers element k's reduced gradient: the ring pass copies
\* into the clone, the cat pass reshapes a split item, the JIT pass views a slice
ResultNode(k) ==
    CASE strategy = "ring" -> Clone(k)
      [] strategy = "cat" -> Reshape(k)
      [] OTHER -> UnpackView(k)

\* nothing created, moved or erased, and no argument of a node changed
GraphAsOnEntry ==
    /\ nodes = EntryNodes
    /\ \A x \in Range(EntryNodes) : args[x] = EntryArgs[x]

\* ceil(a / b) for b > 0
CeilDiv(a, b) == (a + b - 1) \div b

\* the elements of chunk c (1-based) of n elements cut into runs of g
Chunk(c, n, g) == ((c - 1) * g + 1)..Min(c * g, n)

RECURSIVE SumOver(_)
SumOver(ks) ==
    IF ks = {} THEN 0
    ELSE LET k == CHOOSE x \in ks : TRUE IN InSize(k) + SumOver(ks \ {k})

\* the greatest summed size of a chunk, the last shorter chunk included
MaxChunkSum(n, g) ==
    IF n = 0 THEN 0
    ELSE LET sums == {SumOver(Chunk(c, n, g)) : c \in 1..CeilDiv(n, g)}
         IN  CHOOSE v \in sums : \A w \in sums : w <= v

-----------------------------------------------------------------------------
(* C1 *)

\* C1: when a pass has run to completion the final output argument list has
\* the length of the original one, every slot that held the wait node of a
\* fused element holds that element's result node, and every other slot
\* holds what it held before.
C1_OutputSlotsRewritten ==
    pc = "done" =>
        LET final == args[Output(1)]
            orig == input.gm.out
        IN  /\ Len(final) = Len(orig)
            /\ \A i \in DOMAIN orig :
                  IF StartsWith(orig[i], "wait_comm") /\ orig[i][2] \in FusedElems
                  THEN final[i] = ResultNode(orig[i][2])
                  ELSE final[i] = orig[i]

-----------------------------------------------------------------------------
(* C2 *)

\* the range a packed member occupies in its group's staging value
PackRange(k) ==
    IF strategy = "cat"
    THEN LET cat_node == CHOOSE x \in Range(nodes) : x[1] = "cat" /\ Flatten(k) \in Range(args[x])
             ins == args[cat_node]
             j == IndexOf(ins, Flatten(k))
             before == SumSeq([i \in 1..(j - 1) |-> Numel(attr[args[ins[i]][1]])])
         IN  <<before, before + Numel(attr[args[Flatten(k)][1]])>>
    ELSE attr[args[PackCopy(k)][1]]

\* the gradient value packed for member k: the source of its pack node
PackSource(k) ==
    IF strategy = "cat" THEN args[Flatten(k)][1] ELSE args[args[PackCopy(k)][2]][1]

\* the range a member's result is taken from
UnpackRange(k) ==
    IF strategy = "cat"
    THEN LET split == args[SplitItem(k)][1]
             idx == attr[SplitItem(k)][1]
             before == SumSeq(SubSeq(attr[split], 1, idx))
         IN  <<before, before + attr[split][idx + 1]>>
    ELSE attr[args[UnpackView(k)][1]]

\* the shape a member's result is given
UnpackShape(k) == IF strategy = "cat" THEN attr[Reshape(k)] ELSE attr[UnpackView(k)]

Packed(k) == (IF strategy = "cat" THEN Flatten(k) ELSE PackCopy(k)) \in Range(nodes)

Unpacked(k) == (IF strategy = "cat" THEN Reshape(k) ELSE UnpackView(k)) \in Range(nodes)

\* the offset of member j of group grp, from the input shapes
InOffset(grp, j) == SumSeq([i \in 1..(j - 1) |-> InSize(grp[i])])

\* C2: in every strategy and every group, member j is packed at
\* [S_j, S_j + size_j), S_j the summed sizes of the members before it, its
\* result is unpacked from that same range in its original shape, the packed
\* value is that member's own gradient, and the members' ranges are pairwise
\* disjoint and cover [0, group total).
C2_PackUnpackRanges ==
    \A g \in DOMAIN fused :
        LET grp == fused[g]
            total == SumSeq([i \in DOMAIN grp |-> InSize(grp[i])])
        IN  /\ \A j \in DOMAIN grp :
                  LET k == grp[j]
                      range == <<InOffset(grp, j), InOffset(grp, j) + InSize(k)>>
                  IN  /\ Packed(k) =>
                            /\ PackRange(k) = range
                            /\ PackSource(k) \in {Grad(k), Clone(k)}
                      /\ Unpacked(k) =>
                            /\ UnpackRange(k) = range
                            /\ UnpackShape(k) = input.gm.shapes[k]
            /\ (\A j \in DOMAIN grp : Packed(grp[j])) =>
                  /\ \A i, j \in DOMAIN grp :
                        i < j => PackRange(grp[i])[2] <= PackRange(grp[j])[1]
                  /\ PackRange(grp[1])[1] = 0
                  /\ \A j \in 1..(Len(grp) - 1) :
                        PackRange(grp[j])[2] = PackRange(grp[j + 1])[1]
                  /\ PackRange(grp[Len(grp)])[2] = total

\* a group of two members of different shapes has been packed and unpacked
C2_Witness ==
    \E g \in DOMAIN fused :
        /\ Len(fused[g]) >= 2
        /\ input.gm.shapes[fused[g][1]] # input.gm.shapes[fused[g][2]]
        /\ \A j \in DOMAIN fused[g] : Packed(fused[g][j]) /\ Unpacked(fused[g][j])

-----------------------------------------------------------------------------
(* C3, C4, C10 *)

\* the ring pass has run _determine_peak_memory on a non-empty element list
PeakComputed == strategy = "ring" /\ Len(gi.fe_list) > 0 /\ pc # "peak"

\* C3: for fusion_length G > 1, _determine_peak_memory returns the maximum
\* summed element size over all consecutive chunks of G elements of fe_list,
\* a final chunk of fewer than G elements included.
C3_PeakIsMaxOverAllChunks ==
    (PeakComputed /\ fusion_length > 1) =>
        gi.peak_memory_required = MaxChunkSum(NumElems, fusion_length)

\* C4: in the ring pass every group handed to _copy_fe_to_buffer, the last
\* shorter one included, has a summed element size of at most
\* global_buffer_size, the size of every ring buffer node.
C4_GroupFitsRingBuffer ==
    strategy = "ring" =>
        \A g \in DOMAIN fused :
            /\ SumOver(Range(fused[g])) <= gi.global_buffer_size
            /\ \A b \in Range(gi.ring_buffer) : attr[b] = <<gi.global_buffer_size>>

\* C10: in the ring pass, with at least one fusion element (each of positive
\* size) and fusion_length > 1, also one greater than the number of
\* elements, the peak-memory check passes and the pass goes on to allocate
\* its buffers; the check aborts the pass only when no element was found.
C10_PeakCheckAbortsOnlyWhenEmpty ==
    [][(pc = "peak" /\ Len(gi.fe_list) > 0 /\ fusion_length > 1
            /\ \A k \in 1..NumElems : InSize(k) > 0)
        => pc' = "buffers"]_vars

-----------------------------------------------------------------------------
(* C5 *)

\* C5: in the ring and the cat pass the groups handed to the fuse step are
\* the consecutive runs of fusion_length elements of fe_list in scan order,
\* the last one holding between 1 and fusion_length elements; once the group
\* loop is over there are ceil(n / fusion_length) groups and every scanned
\* element is in exactly one of them.
C5_CountGroupsPartition ==
    (strategy \in {"ring", "cat"} /\ fusion_length >= 1) =>
        LET n == Len(gi.fe_list)
        IN  /\ \A g \in DOMAIN fused :
                  /\ fused[g] = [j \in 1..Cardinality(Chunk(g, n, fusion_length)) |->
                                    (g - 1) * fusion_length + j]
                  /\ Len(fused[g]) >= 1
                  /\ Len(fused[g]) <= fusion_length
                  /\ g < Len(fused) => Len(fused[g]) = fusion_length
            /\ pc \in {"output", "rebuild", "done"} =>
                  /\ Len(fused) = CeilDiv(n, fusion_length)
                  /\ n = NumElems
                  /\ \A k \in 1..n :
                        Cardinality({<<g, j>> \in (DOMAIN fused) \X (1..n) :
                                       j \in DOMAIN fused[g] /\ fused[g][j] = k}) = 1

\* the ring pass has completed with a full group and a shorter last group
C5_Witness ==
    /\ strategy = "ring"
    /\ pc = "done"
    /\ Len(fused) = 2
    /\ Len(fused[1]) = 2
    /\ Len(fused[2]) = 1

-----------------------------------------------------------------------------
(* C6, C7, C8, C9 *)

\* C6: whenever a pass aborts, the graph is as it was on entry: no node
\* created, moved or erased, no node argument and no output argument changed.
C6_AbortLeavesGraphUntouched == pc = "aborted" => GraphAsOnEntry

Malformed == input.gm.defect # NoDefect

\* C7: on an empty graph, a graph without output node, or a graph with a
\* wait node whose predecessor pattern is absent, each pass aborts in setup
\* or scan: it never gets past the scan, it creates no buffer node, and the
\* node list and all arguments stay as they were.
C7_MalformedGraphAbortsEarly ==
    Malformed =>
        /\ pc \in {"entry", "scan", "aborted"}
        /\ input.gm.defect[1] \in {"empty", "no_output"} => pc \in {"entry", "aborted"}
        /\ GraphAsOnEntry
        /\ gi.ring_buffer = <<>>

\* a pass has aborted in its scan on a broken comm block
C7_Witness ==
    /\ input.gm.defect[1] = "bad_pattern"
    /\ pc = "aborted"
    /\ gi.output = Output(0)
    /\ NumElems >= 2

\* C8: the cat and the JIT pass reject every fusion_length <= 1: the call
\* aborts, and no graph mutation occurs.
C8_CatJitRejectShortFusionLength ==
    (strategy \in {"cat", "jit"} /\ fusion_length <= 1) =>
        /\ pc \notin {"fuse", "scatter", "finalize", "output", "rebuild", "done"}
        /\ GraphAsOnEntry

\* C9: the ring pass called with fusion_length <= 1 or ring_num_buffers <= 0
\* never completes and never gets past buffer creation, and up to its abort
\* no buffer node is inserted and no node is moved, erased or rewired; with
\* fusion_length <= 1 it aborts at entry.
C9_RingRejectsBadOptions ==
    (strategy = "ring" /\ (fusion_length <= 1 \/ ring_num_buffers <= 0)) =>
        /\ pc \in {"entry", "scan", "peak", "buffers", "aborted"}
        /\ fusion_length <= 1 => pc \in {"entry", "aborted"}
        /\ GraphAsOnEntry
        /\ gi.ring_buffer = <<>>

\* the ring pass has aborted in _create_fusion_buffers for want of a buffer
C9_Witness ==
    /\ strategy = "ring"
    /\ ring_num_buffers <= 0
    /\ fusion_length > 1
    /\ pc = "aborted"
    /\ gi.peak_memory_required > 0

-----------------------------------------------------------------------------
(* C11 *)

\* the last member of fused group g
LastOf(g) == fused[g][Len(fused[g])]

\* the staging node of fused group g: the node its members are packed into
StagingNode(g) ==
    IF strategy = "cat" THEN Cat(LastOf(g)) ELSE args[PackSlice(LastOf(g))][1]

\* the elements whose reduction node no longer has the arguments it had on entry
Rewired == {k \in 1..NumElems : args[AllReduce(k)] # EntryArgs[AllReduce(k)]}

\* C11: in every run that has not aborted, the rewired reduction nodes are
\* exactly the reduction nodes of the last members of the groups fused so
\* far, one per group; the first argument of each is its group's staging node
\* (a ring buffer node, the group's cat node, the group's JIT buffer node),
\* its other arguments are unchanged; and once the group loop of the ring or
\* the cat pass is over, their number is ceil(n / fusion_length).
C11_OneFusedReductionPerGroup ==
    pc # "aborted" =>
        /\ Rewired = {LastOf(g) : g \in DOMAIN fused}
        /\ Cardinality(Rewired) = Len(fused)
        /\ \A g \in DOMAIN fused :
              LET comm == AllReduce(LastOf(g))
              IN  /\ args[comm] = <<StagingNode(g), TensorConstant(LastOf(g), 1),
                                    TensorConstant(LastOf(g), 2)>>
                  /\ StagingNode(g) \in Range(nodes)
                  /\ CASE strategy = "ring" -> StagingNode(g) \in Range(gi.ring_buffer)
                       [] strategy = "cat" ->
                            args[StagingNode(g)] =
                                [j \in DOMAIN fused[g] |-> Flatten(fused[g][j])]
                       [] OTHER -> StagingNode(g) = JitBuffer(LastOf(g))
        /\ (pc \in {"output", "rebuild", "done"} /\ strategy \in {"ring", "cat"}
                /\ fusion_length >= 1) =>
              Cardinality(Rewired) = CeilDiv(Len(gi.fe_list), fusion_length)

\* a pass has completed on three elements fused as two groups
C11_Witness ==
    /\ pc = "done"
    /\ NumElems = 3
    /\ Len(fused) = 2
    /\ Cardinality(Rewired) = 2

-----------------------------------------------------------------------------
(* C12, C13 *)

\* the byte budget of the JIT pass
BucketSize == fusion_length * MB

\* the estimated byte size of fused group g
GroupBytes(g) == FP32_BYTES * SumOver(Range(fused[g]))

\* C12: in the JIT pass, also for every fusion_length > 1, the estimated byte
\* size of every fused group (4 bytes per element of its members) is at most
\* the byte budget fusion_length * 1024 * 1024.
C12_JitGroupWithinBudget ==
    (strategy = "jit" /\ fusion_length > 1) =>
        \A g \in DOMAIN fused : GroupBytes(g) <= BucketSize

\* the groups of elements k..n when the elements of cur, acc bytes in all,
\* have been taken since the last boundary: a boundary directly behind the
\* first element with which the bytes reach the budget, the rest as last group
RECURSIVE JitCut(_, _, _, _)
JitCut(k, acc, cur, n) ==
    IF k > n THEN (IF cur = <<>> THEN <<>> ELSE <<cur>>)
    ELSE LET bytes == acc + FP32_BYTES * InSize(k)
         IN  IF bytes >= BucketSize
             THEN <<Append(cur, k)>> \o JitCut(k + 1, 0, <<>>, n)
             ELSE JitCut(k + 1, bytes, Append(cur, k), n)

JitGroups == JitCut(1, 0, <<>>, NumElems)

\* C13: the groups the JIT pass fuses are, in order, the groups cut from
\* fe_list directly behind each first element with which the bytes taken
\* since the previous boundary reach or cross the budget, the elements left
\* over forming a last group; no group is empty, and when the loop is over
\* every element is in exactly one group.
C13_JitGroupsCutAtBudget ==
    (strategy = "jit" /\ pc # "aborted") =>
        /\ Len(fused) <= Len(JitGroups)
        /\ fused = SubSeq(JitGroups, 1, Len(fused))
        /\ \A g \in DOMAIN fused : fused[g] # <<>>
        /\ pc \in {"output", "rebuild", "done"} =>
              /\ fused = JitGroups
              /\ Len(gi.fe_list) = NumElems
              /\ Concat(fused) = [k \in 1..NumElems |-> k]

\* the JIT pass has completed with a group that met its budget exactly and a
\* leftover group
C13_Witness ==
    /\ strategy = "jit"
    /\ fusion_length > 1
    /\ pc = "done"
    /\ Len(fused) = 2
    /\ Len(fused[1]) = 2
    /\ GroupBytes(1) = BucketSize

-----------------------------------------------------------------------------
(* C14 *)

\* the output check has passed and no group has been fused yet
RewriterReady == pc \in {"fuse", "loop", "leftover", "output"} /\ fused = <<>>

\* the groups fe_list[first : first + len] the rewriter can be called for
RewriteGroups ==
    {<<first, len>> \in (0..Len(gi.fe_list)) \X (1..Len(gi.fe_list)) :
        first + len <= Len(gi.fe_list)}

\* the pass's output rewriter applied to out for the group grp
Rewrite(out, grp) ==
    LET fe_list == PySlice(gi.fe_list, grp[1], grp[1] + grp[2])
    IN  IF strategy = "ring"
        THEN finalize_output_node(out, fe_list, grp[1])
        ELSE update_output_args(gi, fe_list, out,
                                [j \in DOMAIN fe_list |-> ResultNode(ElemOf(fe_list[j]))])

\* the rewriter applied for grp to the result r of an earlier application
RewriteThen(r, grp) == IF r.ok THEN Rewrite(r.out, grp) ELSE r

\* C14: for the working copy of the output arguments and any two disjoint
\* groups A and B of fe_list, the pass's output rewriter (_finalize_output_node
\* in the ring pass, _update_output_args in the cat and the JIT pass) applied
\* for A then B, for B then A and, when B follows A directly, once for their
\* union succeeds and gives the same list, and applied for A alone it leaves
\* every slot holding the wait node of a member of B as it is.
C14_RewriterCommutesOnDisjointGroups ==
    RewriterReady =>
        \A A, B \in RewriteGroups :
            A[1] + A[2] <= B[1] =>
                LET out == loc.new_output_args
                    a == Rewrite(out, A)
                    ab == RewriteThen(a, B)
                    ba == RewriteThen(Rewrite(out, B), A)
                    u == Rewrite(out, <<A[1], A[2] + B[2]>>)
                    waitsB == {WaitComm(gi.fe_list[j].wait_node[2]) :
                                  j \in (B[1] + 1)..(B[1] + B[2])}
                IN  /\ ab.ok /\ ba.ok
                    /\ ab.out = ba.out
                    /\ A[1] + A[2] = B[1] => (u.ok /\ u.out = ab.out)
                    /\ \A i \in DOMAIN out : out[i] \in waitsB => a.out[i] = out[i]

\* the same statement for the cat and the JIT pass only
C14_UpdateOutputArgsCommutes == strategy \in {"cat", "jit"} => C14_RewriterCommutesOnDisjointGroups

-----------------------------------------------------------------------------
(* C15 *)

\* the steps from one driver position to the next in the order setup, scan,
\* (ring: estimate memory, allocate buffers), the output check, then per group
\* fuse, scatter, rewrite of the output slice, then the output node, then
\* rebuild; "loop" and "leftover" are the JIT driver forming its next group
PhaseOrder ==
    {<<"entry", "scan">>, <<"output", "rebuild">>, <<"rebuild", "done">>,
     <<"fuse", "scatter">>, <<"scatter", "finalize">>,
     <<"check", "fuse">>, <<"check", "output">>,
     <<"finalize", "fuse">>, <<"finalize", "output">>}
    \cup (IF strategy = "ring"
          THEN {<<"scan", "peak">>, <<"peak", "buffers">>, <<"buffers", "check">>}
          ELSE {<<"scan", "check">>})
    \cup (IF strategy = "jit"
          THEN {<<"check", "loop">>, <<"check", "leftover">>, <<"loop", "loop">>,
                <<"loop", "leftover">>, <<"loop", "fuse">>, <<"leftover", "fuse">>,
                <<"leftover", "output">>, <<"finalize", "loop">>,
                <<"finalize", "leftover">>}
          ELSE {})
    \cup {<<p, "aborted">> : p \in {"entry", "scan", "peak", "buffers", "check",
                                    "fuse", "scatter", "finalize"}}

OutputNodes == {x \in Range(nodes) : Op(x) = "output"}

\* the slots of the working copy that belong to the groups fused so far
\* have been rewritten
FusedSlicesRewritten ==
    IF strategy = "ring"
    THEN \A i \in 1..Min(loc.start, Len(loc.new_output_args)) :
            ~StartsWith(loc.new_output_args[i], "wait_comm")
    ELSE \A k \in FusedElems :
            loc.new_output_args[gi.wait_node_idx[WaitComm(k)]] = ResultNode(k)

\* the reduction of every group fused so far in the ring pass is in the graph
\* and takes a ring buffer as its first argument
FusedReductionsPlaced ==
    \A g \in DOMAIN fused :
        /\ AllReduce(LastOf(g)) \in Range(nodes)
        /\ args[AllReduce(LastOf(g))][1] \in Range(gi.ring_buffer)

\* C15: every step of a run follows the phase order; the groups are fused in
\* ascending scan order, each fuse step starting only when the output slices
\* of all earlier groups have been rewritten; the graph's output node keeps
\* its original arguments until it is erased and recreated, which happens
\* once, after the group loop and before the rebuild; and the ring pass hands
\* out a buffer for the next group only when the reduction of every earlier
\* group has been rewired to its buffer and placed in the graph.
C15_PhaseOrder ==
    [][/\ <<pc, pc'>> \in PhaseOrder
       /\ pc' = "fuse" => FusedSlicesRewritten'
       /\ fused' # fused =>
              /\ pc = "fuse"
              /\ Len(fused') = Len(fused) + 1
              /\ SubSeq(fused', 1, Len(fused)) = fused
              /\ fused'[Len(fused')][1] = Len(Concat(fused)) + 1
              /\ strategy = "ring" => FusedReductionsPlaced
       /\ pc' \in {"entry", "scan", "peak", "buffers", "check", "loop", "leftover",
                   "fuse", "scatter", "finalize", "output"} =>
              /\ OutputNodes' \subseteq {Output(0)}
              /\ Output(0) \in Range(nodes') => args'[Output(0)] = input.gm.out
       /\ pc' \in {"rebuild", "done"} =>
              /\ OutputNodes' = {Output(1)}
              /\ nodes'[Len(nodes')] = Output(1)
      ]_vars

\* the ring pass has completed two groups on a single ring buffer
C15_Witness ==
    /\ strategy = "ring"
    /\ pc = "done"
    /\ Len(fused) = 2
    /\ Len(gi.ring_buffer) = 1
    /\ FusedReductionsPlaced

-----------------------------------------------------------------------------
(* C16 *)

\* the GraphInfo after k further calls of get_next_ring_buffer
RECURSIVE AfterCalls(_, _)
AfterCalls(g, k) == IF k = 0 THEN g ELSE get_next_ring_buffer(AfterCalls(g, k - 1)).gi

\* calls of get_next_ring_buffer looked at, beyond two turns of the largest ring
MaxCalls == 5

\* C16: after setup_ring_buffer with N >= 1 buffers, call number k (k = 0, 1,
\* ...) of get_next_ring_buffer returns buffer k mod N, the ring index is in
\* 0..N-1 after every call, and get_current_ring_buffer then returns the
\* buffer that call returned; and every group g (g = 1, 2, ...) fused by the
\* ring pass is packed into buffer (g - 1) mod N, its reduction takes that
\* buffer as input and its members are unpacked from that buffer.
C16_RingBufferRoundRobin ==
    (strategy = "ring" /\ gi.ring_buffer # <<>>) =>
        LET N == Len(gi.ring_buffer)
        IN  /\ gi.ring_num_buffers = N
            /\ gi.ring_index \in 0..(N - 1)
            /\ pc = "check" =>
                  \A k \in 0..MaxCalls :
                      LET r == get_next_ring_buffer(AfterCalls(gi, k))
                      IN  /\ r.buffer_node = gi.ring_buffer[(k % N) + 1]
                          /\ r.gi.ring_index \in 0..(N - 1)
                          /\ get_current_ring_buffer(r.gi) = r.buffer_node
            /\ pc # "aborted" =>
                  \A g \in DOMAIN fused :
                      LET buffer == gi.ring_buffer[((g - 1) % N) + 1]
                      IN  /\ args[AllReduce(LastOf(g))][1] = buffer
                          /\ \A j \in DOMAIN fused[g] :
                                /\ args[PackSlice(fused[g][j])] = <<buffer>>
                                /\ UnpackSlice(fused[g][j]) \in Range(nodes) =>
                                      args[UnpackSlice(fused[g][j])] = <<buffer>>
            /\ (pc = "finalize" /\ fused # <<>>) =>
                  \A j \in DOMAIN fused[Len(fused)] :
                      UnpackSlice(fused[Len(fused)][j]) \in Range(nodes)

\* the ring pass has unpacked its second group from the second of two buffers
C16_Witness ==
    /\ strategy = "ring"
    /\ pc = "finalize"
    /\ Len(gi.ring_buffer) = 2
    /\ Len(fused) = 2
    /\ args[UnpackSlice(LastOf(2))] = <<gi.ring_buffer[2]>>
    /\ args[UnpackSlice(LastOf(1))] = <<gi.ring_buffer[1]>>

-----------------------------------------------------------------------------
(* C17 *)

\* node x comes after every node of the graph it takes as argument
AfterItsArguments(x) ==
    \A i \in DOMAIN args[x] :
        args[x][i] \in Range(nodes) => Pos(nodes, args[x][i]) < Pos(nodes, x)

\* C17: whenever no group is between its fuse and its scatter step, in each
\* of the three passes and for every order of gradient nodes and comm blocks
\* of the input graph, every node of the graph comes after all the nodes it
\* takes as arguments.
C17_TopologicalOrderKept ==
    pc \notin {"scatter", "aborted"} => \A x \in Range(nodes) : AfterItsArguments(x)

\* the same for every node but the reduction nodes the fuse steps left behind
\* unrewired
C17_OrderKeptButStaleReductions ==
    pc \notin {"scatter", "aborted"} =>
        \A x \in Range(nodes) :
            (x[1] = "allreduce_" /\ x[2] \in FusedElems /\ x[2] \notin Rewired)
                \/ AfterItsArguments(x)

-----------------------------------------------------------------------------
(* C18 *)

\* the gradient node of fused group g with the greatest position recorded in
\* actual_grad_index_mapping
AnchorOf(g) ==
    LET grads == {Grad(fused[g][j]) : j \in DOMAIN fused[g]}
    IN  CHOOSE x \in grads :
            \A y \in grads :
                gi.actual_grad_index_mapping[y] <= gi.actual_grad_index_mapping[x]

\* the staging subgraph of fused group g without its reduction node
StagingNodes(g) ==
    LET ms == Range(fused[g])
        consts == {TensorConstant(LastOf(g), 1), TensorConstant(LastOf(g), 2)}
    IN  CASE strategy = "ring" ->
               {Clone(k) : k \in ms} \cup consts
                   \cup {PackView(k) : k \in ms} \cup {PackSlice(k) : k \in ms}
                   \cup {PackCopy(k) : k \in ms}
          [] strategy = "cat" ->
               {Flatten(k) : k \in ms} \cup {Cat(LastOf(g))} \cup consts
          [] OTHER ->
               {JitBuffer(LastOf(g))} \cup consts
                   \cup {PackView(k) : k \in ms} \cup {PackSlice(k) : k \in ms}
                   \cup {PackCopy(k) : k \in ms}

\* C18: in every pass and for every group fused, the nodes from directly
\* behind the group's gradient node of greatest recorded position up to the
\* group's fused reduction are exactly the group's staging nodes (in the ring
\* pass the moved clones, the pack nodes and the reduction's constants; in the
\* cat pass the flatten nodes, the cat node and the constants; in the JIT pass
\* the buffer, the pack nodes and the constants), with the fused reduction as
\* the last of them - also when that gradient is not the last member's.
C18_StagingBehindLastGradient ==
    pc # "aborted" =>
        \A g \in DOMAIN fused :
            LET a == Pos(nodes, AnchorOf(g))
                r == Pos(nodes, AllReduce(LastOf(g)))
            IN  /\ a < r
                /\ {nodes[i] : i \in (a + 1)..(r - 1)} = StagingNodes(g)
                /\ r - a - 1 = Cardinality(StagingNodes(g))
                /\ \A j \in DOMAIN fused[g] :
                      Pos(nodes, Grad(fused[g][j])) <= a

\* a pass has completed a group whose last gradient is not its last member's
C18_Witness ==
    /\ pc = "done"
    /\ \E g \in DOMAIN fused :
          /\ Len(fused[g]) >= 2
          /\ AnchorOf(g) # Grad(LastOf(g))
          /\ nodes[Pos(nodes, AnchorOf(g)) + 1] \in StagingNodes(g)

-----------------------------------------------------------------------------
(* C19 *)

\* the group the fuse step about to run is called for
GroupToFuse ==
    IF strategy = "jit" THEN CurrentGroup
    ELSE PySlice(gi.fe_list, loc.start, loc.start + fusion_length)

\* C19: whenever a fuse step is about to read actual_grad_index_mapping, for
\* the first group and for every later one, the mapping gives every gradient
\* node of the group its current position (0-based) in the node list.
C19_GradientMappingNeverStale ==
    pc = "fuse" =>
        \A j \in DOMAIN GroupToFuse :
            LET grad == args[GroupToFuse[j].grad_tensor_node][1]
            IN  /\ grad \in DOMAIN gi.actual_grad_index_mapping
                /\ gi.actual_grad_index_mapping[grad] = Pos(nodes, grad) - 1

\* the same for the first group only
C19_MappingFreshForFirstGroup == fused = <<>> => C19_GradientMappingNeverStale

-----------------------------------------------------------------------------
(* C20 *)

\* the scanner has returned its element list
Scanned ==
    \/ pc \in {"peak", "buffers", "check", "loop", "leftover", "fuse", "scatter",
               "finalize", "output", "rebuild", "done"}
    \/ pc = "aborted" /\ gi.fe_offset_to_comm_node # 0

\* the wait nodes of the graph as it was on entry, in program order
EntryWaitNodes == SelectSeq(EntryNodes, LAMBDA x : x[1] = "wait_comm")

\* C20: the element list the scanner returned has one FusionElement per node
\* of the entry graph named wait_comm..., in the program order of those nodes;
\* each records that wait node, the allreduce_ node of the wait node's block
\* as comm_node, the first argument of that node as grad_tensor_node, and
\* that node's tensor metadata shape and element count as shape and size; and
\* directly after the scan the node list, the arguments and the metadata are
\* as they were on entry.
C20_ScannerOneElementPerWait ==
    /\ Scanned =>
          /\ Len(gi.fe_list) = Len(EntryWaitNodes)
          /\ \A i \in DOMAIN gi.fe_list :
                LET fe == gi.fe_list[i]
                IN  /\ fe.wait_node = EntryWaitNodes[i]
                    /\ fe.comm_node = AllReduce(fe.wait_node[2])
                    /\ fe.wait_node = fe.node_list[Len(fe.node_list)]
                    /\ fe.comm_node \in Range(fe.node_list)
                    /\ fe.grad_tensor_node = EntryArgs[fe.comm_node][1]
                    /\ fe.shape = EntryAttr[fe.grad_tensor_node]
                    /\ fe.size = Numel(EntryAttr[fe.grad_tensor_node])
    /\ (pc = "peak" \/ (pc = "check" /\ strategy # "ring")) =>
          /\ GraphAsOnEntry
          /\ args = EntryArgs
          /\ attr = EntryAttr

\* the scanner has returned three elements of different shapes
C20_Witness ==
    /\ pc = "check"
    /\ strategy = "jit"
    /\ Len(gi.fe_list) = 3
    /\ gi.fe_list[1].shape # gi.fe_list[2].shape
    /\ gi.fe_list[2].size # gi.fe_list[3].size
    /\ input.gm.layout # CanonicalLayout(3)

-----------------------------------------------------------------------------
(* C21 *)

\* the buffer nodes the JIT pass has created
JitBuffers == {x \in Range(nodes) : x[1] = "empty"}

\* the nodes of the graph that take node b as an argument
Referrers(b) == {x \in Range(nodes) : b \in Range(args[x])}

\* C21: in every run of the JIT pass that has not aborted, the buffer nodes
\* in the graph are one per fused group; the size argument of a group's
\* buffer is the sum of the element counts of the group's members, so the
\* pack range of the last member ends at the buffer's end; every pack and
\* unpack slice of a member takes its own group's buffer; and the only nodes
\* referring to a group's buffer are the pack and unpack slices of its own
\* members and its own fused reduction.
C21_JitBufferPerGroup ==
    (strategy = "jit" /\ pc # "aborted") =>
        /\ JitBuffers = {JitBuffer(LastOf(g)) : g \in DOMAIN fused}
        /\ Cardinality(JitBuffers) = Len(fused)
        /\ \A g \in DOMAIN fused :
              LET b == JitBuffer(LastOf(g))
                  grp == fused[g]
              IN  /\ attr[b] = <<SumSeq([j \in DOMAIN grp |-> InSize(grp[j])])>>
                  /\ attr[PackSlice(LastOf(g))][2] = attr[b][1]
                  /\ \A k \in Range(grp) :
                        /\ args[PackSlice(k)] = <<b>>
                        /\ UnpackSlice(k) \in Range(nodes) => args[UnpackSlice(k)] = <<b>>
                  /\ Referrers(b) \subseteq
                        {PackSlice(k) : k \in Range(grp)}
                        \cup {UnpackSlice(k) : k \in Range(grp)}
                        \cup {AllReduce(LastOf(g))}

\* the JIT pass has completed with two groups whose buffers differ in size,
\* one of them holding two members
C21_Witness ==
    /\ strategy = "jit"
    /\ pc = "done"
    /\ Len(fused) = 2
    /\ \E g \in DOMAIN fused : Len(fused[g]) = 2
    /\ attr[JitBuffer(LastOf(1))] # attr[JitBuffer(LastOf(2))]
    /\ Cardinality(JitBuffers) = 2

-----------------------------------------------------------------------------
(* C22 *)

\* the nodes the unpack step of fused group g creates
UnpackSet(g) ==
    LET ks == Range(fused[g])
    IN  CASE strategy = "ring" ->
               {UnpackSlice(k) : k \in ks} \cup {UnpackView(k) : k \in ks}
               \cup {UnpackCopy(k) : k \in ks}
          [] strategy = "cat" ->
               {Split(LastOf(g))} \cup {SplitItem(k) : k \in ks}
               \cup {Reshape(k) : k \in ks}
          [] OTHER -> {UnpackSlice(k) : k \in ks} \cup {UnpackView(k) : k \in ks}

\* the unpack step of group g has run
Scattered(g) == UnpackSet(g) \subseteq Range(nodes)

\* the wait node of the last member of group g
GroupWait(g) == WaitComm(LastOf(g))

\* the nodes of list ns directly behind the wait node of group g, as many as
\* the group has unpack nodes
UnpackRun(ns, g) ==
    LET p == Pos(ns, GroupWait(g))
    IN  SubSeq(ns, p + 1, Min(Len(ns), p + Cardinality(UnpackSet(g))))

\* the unpack nodes of every unpacked group stand directly behind the group's
\* wait node in list ns: in the JIT pass slice and view member by member, in
\* the cat pass every getitem before its reshape
UnpackInPlace(ns) ==
    \A g \in DOMAIN fused :
        UnpackSet(g) \subseteq Range(ns) =>
            /\ Range(UnpackRun(ns, g)) = UnpackSet(g)
            /\ \A x \in UnpackSet(g) : Pos(ns, GroupWait(g)) < Pos(ns, x)
            /\ strategy = "jit" =>
                  UnpackRun(ns, g) =
                      Concat([j \in DOMAIN fused[g] |->
                                <<UnpackSlice(fused[g][j]), UnpackView(fused[g][j])>>])
            /\ strategy = "cat" =>
                  \A k \in Range(fused[g]) : Pos(ns, SplitItem(k)) < Pos(ns, Reshape(k))

\* an unpack step: the group fused last gets its unpack nodes
UnpackStep == pc = "scatter" /\ pc' = "finalize"

-----------------------------------------------------------------------------
(* C23 *)

\* node.users: the nodes of the graph taking x as an argument, which fx keeps
\* itself, and the entries the pass has written
Users(x) ==
    {y \in Range(nodes) : x \in Range(args[y])}
    \cup (IF x \in DOMAIN users THEN users[x] ELSE {})

\* the copy nodes the pass made for fused group g: the pack copies, and in
\* the ring pass the unpack copies
SynthesizedCopies(g) ==
    {PackCopy(k) : k \in Range(fused[g])}
    \cup (IF strategy = "ring" THEN {UnpackCopy(k) : k \in Range(fused[g])} ELSE {})

\* C23: when the ring pass or the JIT pass is at graph rebuild, every pack
\* copy node and, in the ring pass, every unpack copy node of every group is
\* in the graph with a non-empty users set, and so is the wait node of every
\* group's last member: none of them counts as unused.
C23_CopiesAndWaitsKeepUsers ==
    (strategy \in {"ring", "jit"} /\ pc = "rebuild") =>
        \A g \in DOMAIN fused :
            /\ \A c \in SynthesizedCopies(g) : c \in Range(nodes) /\ Users(c) # {}
            /\ GroupWait(g) \in Range(nodes)
            /\ Users(GroupWait(g)) # {}

\* the ring pass is at graph rebuild with two groups, and no node of the
\* graph takes a copy node or a group's wait node as argument
C23_Witness ==
    /\ strategy = "ring"
    /\ pc = "rebuild"
    /\ Len(fused) = 2
    /\ Len(fused[1]) = 2
    /\ \A g \in DOMAIN fused :
          \A x \in SynthesizedCopies(g) \cup {GroupWait(g)} : Referrers(x) = {}

-----------------------------------------------------------------------------
(* C24 *)

\* the output rewrite of fused group g has run
Finalized(g) ==
    /\ pc # "aborted"
    /\ g < Len(fused) \/ pc \in {"fuse", "loop", "leftover", "output", "rebuild", "done"}

\* the slots of the original output argument list that hold the wait node of
\* element k
SlotsOf(k) == {i \in DOMAIN input.gm.out : input.gm.out[i] = WaitComm(k)}

\* C24: in the ring pass, once the output rewrite of a group has run, every
\* slot of the working output argument list that referenced the wait node of
\* a member of the group references that member's unpacked view node, the
\* node of the unpack subgraph that views the member's slice of the reduced
\* buffer in the member's original shape.
C24_RingSlotHoldsUnpackedView ==
    strategy = "ring" =>
        \A g \in DOMAIN fused :
            Finalized(g) =>
                \A k \in Range(fused[g]) :
                    \A i \in SlotsOf(k) : loc.new_output_args[i] = UnpackView(k)

\* what the ring pass writes instead, on graphs whose output returns the
\* reduced gradients in scan order: the member's clone node, which the unpack
\* subgraph's copy node takes as its destination and the unpacked view as its
\* source
C24_RingSlotHoldsClone ==
    (strategy = "ring" /\ input.gm.out = CanonicalOut(NumElems)) =>
        \A g \in DOMAIN fused :
            Finalized(g) =>
                \A k \in Range(fused[g]) :
                    /\ \A i \in SlotsOf(k) : loc.new_output_args[i] = Clone(k)
                    /\ args[UnpackCopy(k)] = <<Clone(k), UnpackView(k)>>
                    /\ attr[UnpackView(k)] = input.gm.shapes[k]

-----------------------------------------------------------------------------
(* C25 *)

\* the FusionElement of element k in the pass's element list
ElementOf(k) == gi.fe_list[MemberOf(gi.fe_list, k)]

\* C25: for every fusion_length > 1, once a group has been fused and its
\* output slots rewritten, the FusionElement of every member is marked as
\* processed; and when the pass has completed, no FusionElement still has
\* both state fields, in_graph and processed, at the values the scanner gave
\* them.
C25_FusedElementsMarked ==
    fusion_length > 1 =>
        /\ \A g \in DOMAIN fused :
              Finalized(g) => \A k \in Range(fused[g]) : ElementOf(k).processed
        /\ pc = "done" =>
              \A i \in DOMAIN gi.fe_list :
                  <<gi.fe_list[i].in_graph, gi.fe_list[i].processed>> # <<FALSE, FALSE>>

\* what the passes do instead: the elements of fe_list are never written
\* after the scan
C25_ElementsNeverWritten ==
    [][gi.fe_list # <<>> => gi.fe_list' = gi.fe_list]_vars

-----------------------------------------------------------------------------
(* C26 *)

\* the gradient-producing nodes of node list ns, in list order
GradsIn(ns) == SelectSeq(ns, LAMBDA x : x[1] = "grad")

\* the nodes a pass may move: clones, reduction constants, reduction nodes
MayMove(x) == x[1] \in {"clone", "_tensor_constant", "allreduce_"}

\* the nodes of ns that are also in list other and that no pass may move
KeptIn(ns, other) == SelectSeq(ns, LAMBDA x : ~MayMove(x) /\ x \in Range(other))

\* the positions recorded in actual_grad_index_mapping order the gradient
\* nodes as the node list does
MappingOrdersAsGraph ==
    \A x, y \in DOMAIN gi.actual_grad_index_mapping :
        /\ x \in Range(nodes)
        /\ (gi.actual_grad_index_mapping[x] < gi.actual_grad_index_mapping[y])
              <=> (Pos(nodes, x) < Pos(nodes, y))

\* the gradient node the fuse step about to run picks as the group's last
ChosenLastGrad ==
    args[GroupToFuse[get_last_grad_node_from_fe_group(gi, args, GroupToFuse)]
            .grad_tensor_node][1]

\* the fuse step about to run picks the gradient of the group that is last in
\* the node list as it is now
LastGradIsLast ==
    pc = "fuse" =>
        \A j \in DOMAIN GroupToFuse :
            Pos(nodes, args[GroupToFuse[j].grad_tensor_node][1])
                <= Pos(nodes, ChosenLastGrad)

\* C26: no step of any pass moves, erases or re-creates a gradient node, and
\* apart from clones, reduction constants and reduction nodes every node that
\* is in the list before and after a step keeps its place relative to the
\* others; so after every step the positions recorded in
\* actual_grad_index_mapping still order the gradient nodes as the node list
\* does, and the gradient a fuse step picks as its group's last is the last
\* of the group's gradients in the current list.
C26_GradientNodesNeverMoved ==
    [][/\ GradsIn(nodes') = GradsIn(nodes)
       /\ KeptIn(nodes', nodes) = KeptIn(nodes, nodes')
       /\ MappingOrdersAsGraph'
       /\ LastGradIsLast']_vars

\* a fuse step is about to run for a later group of two members; the
\* recorded position of the gradient it picks is no longer its position, and
\* that gradient is not the last member's
C26_Witness ==
    /\ pc = "fuse"
    /\ fused # <<>>
    /\ Len(GroupToFuse) >= 2
    /\ ChosenLastGrad # args[GroupToFuse[Len(GroupToFuse)].grad_tensor_node][1]
    /\ gi.actual_grad_index_mapping[ChosenLastGrad] # Pos(nodes, ChosenLastGrad) - 1

====
